---- MODULE Spec2Model ----
(***************************************************************************)
(* Model of the realtime voice session controller of voice_crm             *)
(* (frontend/src/VoiceAgent.tsx): the refs and React state of the          *)
(* VoiceAgent component, the WebSocket, AudioContext, MediaStream and      *)
(* AudioBufferSourceNode objects it creates, and one action per handler.   *)
(***************************************************************************)
EXTENDS Naturals, Integers, Sequences, FiniteSets, TLC

\* ---------------------------------------------------------------- bounds
\* Number of startSession calls (each creates one WebSocket and one startAudio run).
MaxSessions == 2
\* Last value of the wall clock (Tick stops there).
MaxTime == 1
\* Number of AudioBufferSourceNodes ever created by playAudioChunk.
MaxChunks == 2
\* Longest audio chunk, in clock units.
MaxDur == 1
\* Number of Conversation Entries kept in the log.
MaxLog == 1
\* Number of Start clicks in a row while the connection is still opening.
MaxStarts == 3
\* Number of blocks the capture worklets post.
MaxFrames == 2
\* Number of Conversation Entries kept in the log of a single conversation.
MaxTurns == 2
\* Number of bytes of a PCM16 buffer handed to the transport-text encoder.
MaxBytes == 3

VARIABLES
    sessionIdRef,       \* useRef(0)            line 26
    socketRef,          \* useRef<WebSocket>    line 20   (0 = null)
    audioContextRef,    \* useRef<AudioContext> line 21   (0 = null)
    streamRef,          \* useRef<MediaStream>  line 22   (0 = null)
    nextStartTimeRef,   \* useRef(0)            line 23
    scheduledAudioRef,  \* useRef<AudioBufferSourceNode[]> line 24
    isConnected,        \* useState(false)      line 15
    isMuted,            \* useState(false)      line 18
    stream,             \* useState<MediaStream|null> line 17 (0 = null)
    messages,           \* useState<Message[]>  line 16
    sockets,            \* the WebSockets created so far: [sid, readyState]
    contexts,           \* the AudioContexts created so far: [state, origin]
    streams,            \* the MediaStreams acquired so far: [state, enabled, wired]
    tasks,              \* the startAudio invocations: [sessionId, pc]
    sources,            \* the AudioBufferSourceNodes: [ctx, start, dur, state]
    sent,               \* frames handed to WebSocket.send: <<pipeline, socket>>
    captured,           \* number of blocks the capture worklets have posted
    wire,               \* the send calls in call order: [frame, pipeline, socket]
    clock,              \* real time; an AudioContext's currentTime is clock - origin
    mounted,            \* the component is mounted
    codec,              \* position of one run of the transport-text codec
    bytes,              \* new Uint8Array(pcm16.buffer), line 158
    base64,             \* the text of line 163
    audioData,          \* what the decoder makes of that text
    user,               \* App: useState<User|null>   App.tsx line 12 (0 = null)
    checking,           \* App: useState(true)        App.tsx line 13
    loggingOut,         \* App: the fetch of handleLogout is awaited, line 57
    isLogin,            \* Login: useState(true)      Login.tsx line 10
    loginError,         \* Login: error is not ''      Login.tsx line 14
    loading             \* Login: useState(false)     Login.tsx line 15

vars == <<sessionIdRef, socketRef, audioContextRef, streamRef, nextStartTimeRef,
          scheduledAudioRef, isConnected, isMuted, stream, messages, sockets,
          contexts, streams, tasks, sources, sent, captured, wire, clock,
          mounted, codec, bytes, base64, audioData, user, checking,
          loggingOut, isLogin, loginError, loading>>

\* The variables of the surrounding App and of its Login form, which no
\* handler of the voice agent reads or writes
appVars == <<user, checking, loggingOut, isLogin, loginError, loading>>

\* The variables of one run of the codec, which no handler of the session
\* reads or writes
codecVars == <<codec, bytes, base64, audioData>>

\* The variables of the component
sessionVars ==
    <<sessionIdRef, socketRef, audioContextRef, streamRef, nextStartTimeRef,
      scheduledAudioRef, isConnected, isMuted, stream, messages, sockets,
      contexts, streams, tasks, sources, sent, captured, wire, clock, mounted>>

\* ---------------------------------------------------------------- helpers
Range(f) == {f[i] : i \in DOMAIN f}

Max(a, b) == IF a >= b THEN a ELSE b

\* The whole program state as one record, so that a handler is a function
\* from state to state and handlers compose the way the calls in the code do.
State ==
    [sessionIdRef |-> sessionIdRef, socketRef |-> socketRef,
     audioContextRef |-> audioContextRef, streamRef |-> streamRef,
     nextStartTimeRef |-> nextStartTimeRef, scheduledAudioRef |-> scheduledAudioRef,
     isConnected |-> isConnected, isMuted |-> isMuted, stream |-> stream,
     messages |-> messages, sockets |-> sockets, contexts |-> contexts,
     streams |-> streams, tasks |-> tasks, sources |-> sources, sent |-> sent,
     captured |-> captured, wire |-> wire, clock |-> clock, mounted |-> mounted]

\* The refs and state of the voice agent become those of s
CommitSession(s) ==
    /\ sessionIdRef' = s.sessionIdRef
    /\ socketRef' = s.socketRef
    /\ audioContextRef' = s.audioContextRef
    /\ streamRef' = s.streamRef
    /\ nextStartTimeRef' = s.nextStartTimeRef
    /\ scheduledAudioRef' = s.scheduledAudioRef
    /\ isConnected' = s.isConnected
    /\ isMuted' = s.isMuted
    /\ stream' = s.stream
    /\ messages' = s.messages
    /\ sockets' = s.sockets
    /\ contexts' = s.contexts
    /\ streams' = s.streams
    /\ tasks' = s.tasks
    /\ sources' = s.sources
    /\ sent' = s.sent
    /\ captured' = s.captured
    /\ wire' = s.wire
    /\ clock' = s.clock
    /\ mounted' = s.mounted

Commit(s) ==
    /\ CommitSession(s)
    /\ UNCHANGED codecVars
    /\ UNCHANGED appVars

\* ------------------------------------------------------ browser objects
\* AudioContext.currentTime: starts at 0 when the context is created and
\* advances with real time.
currentTime(s, c) == s.clock - s.contexts[c].origin

\* WebSocket.close(): CONNECTING and OPEN become CLOSING; a socket that is
\* already CLOSING or CLOSED is left alone.
SocketCloseCall(s, j) ==
    IF s.sockets[j].readyState \in {"CONNECTING", "OPEN"}
    THEN [s EXCEPT !.sockets[j].readyState = "CLOSING"]
    ELSE s

\* AudioContext.close()
ContextCloseCall(s, c) == [s EXCEPT !.contexts[c].state = "closed"]

\* MediaStreamTrack.stop() on every track of the stream
TracksStop(s, m) == [s EXCEPT !.streams[m].state = "stopped"]

\* AudioBufferSourceNode.stop(): a scheduled or playing node is stopped, its
\* ended event still to come; an error for a finished one is swallowed.
SourceStop(src) ==
    IF src.state = "scheduled" THEN [src EXCEPT !.state = "stopped"] ELSE src

\* ------------------------------------------------------------- handlers
\* clearAudioQueue that leaves the cursor where it was
clearAudioQueue_keepCursor(s) ==
    [s EXCEPT
        !.sources = [i \in DOMAIN s.sources |->
                        IF i \in Range(s.scheduledAudioRef)
                        THEN SourceStop(s.sources[i]) ELSE s.sources[i]],
        !.scheduledAudioRef = <<>>]

\* clearAudioQueue that rewinds the cursor to the start of the engine's clock
clearAudioQueue_rewind(s) ==
    LET stopped == [s EXCEPT
            !.sources = [i \in DOMAIN s.sources |->
                            IF i \in Range(s.scheduledAudioRef)
                            THEN SourceStop(s.sources[i]) ELSE s.sources[i]],
            !.scheduledAudioRef = <<>>]
    IN  IF s.audioContextRef # 0
        THEN [stopped EXCEPT !.nextStartTimeRef = 0]
        ELSE stopped

\* clearAudioQueue, lines 222-234
clearAudioQueue(s) ==
    LET stopped == [s EXCEPT
            !.sources = [i \in DOMAIN s.sources |->
                            IF i \in Range(s.scheduledAudioRef)
                            THEN SourceStop(s.sources[i]) ELSE s.sources[i]],
            !.scheduledAudioRef = <<>>]
    IN  IF s.audioContextRef # 0
        THEN [stopped EXCEPT !.nextStartTimeRef = currentTime(s, s.audioContextRef)]
        ELSE stopped

\* stopAudio that forgets the tracks: the handle is dropped, the device stays on
stopAudio_leakTracks(s) ==
    LET a == clearAudioQueue(s)
        c == [a EXCEPT !.streamRef = 0, !.stream = 0]
        d == IF c.audioContextRef # 0
             THEN [ContextCloseCall(c, c.audioContextRef) EXCEPT !.audioContextRef = 0]
             ELSE c
    IN  [d EXCEPT !.isConnected = FALSE]

\* stopAudio without the setIsConnected(false) of line 219
stopAudio_keepConnected(s) ==
    LET a == clearAudioQueue(s)
        b == IF a.streamRef # 0
             THEN [TracksStop(a, a.streamRef) EXCEPT !.streamRef = 0]
             ELSE a
        c == [b EXCEPT !.stream = 0]
    IN  IF c.audioContextRef # 0
        THEN [ContextCloseCall(c, c.audioContextRef) EXCEPT !.audioContextRef = 0]
        ELSE c

\* stopAudio, lines 208-220
stopAudio(s) ==
    LET a == clearAudioQueue(s)
        b == IF a.streamRef # 0
             THEN [TracksStop(a, a.streamRef) EXCEPT !.streamRef = 0]
             ELSE a
        c == [b EXCEPT !.stream = 0]
        d == IF c.audioContextRef # 0
             THEN [ContextCloseCall(c, c.audioContextRef) EXCEPT !.audioContextRef = 0]
             ELSE c
    IN  [d EXCEPT !.isConnected = FALSE]

\* The socket stopSession closes: socketToClose ?? socketRef.current, line 187
StopSocket(s, socketToClose) ==
    IF socketToClose # 0 THEN socketToClose ELSE s.socketRef

\* stopSession that does not invalidate the epoch
stopSession_noIncrement(s, socketToClose) ==
    LET socket == StopSocket(s, socketToClose)
        b == IF socket # 0 THEN SocketCloseCall(s, socket) ELSE s
        c == IF socketToClose = 0 \/ b.socketRef = socketToClose
             THEN [b EXCEPT !.socketRef = 0] ELSE b
        d == stopAudio(c)
    IN  [d EXCEPT !.isMuted = FALSE]

\* stopSession that returns at once when there is no socket to close
stopSession_earlyReturn(s, socketToClose) ==
    IF StopSocket(s, socketToClose) = 0 THEN s
    ELSE LET a == [s EXCEPT !.sessionIdRef = @ + 1]
             b == SocketCloseCall(a, StopSocket(a, socketToClose))
             c == IF socketToClose = 0 \/ b.socketRef = socketToClose
                  THEN [b EXCEPT !.socketRef = 0] ELSE b
             d == stopAudio(c)
         IN  [d EXCEPT !.isMuted = FALSE]

\* stopSession with the setMessages([]) of line 201 switched on
stopSession_clearLog(s, socketToClose) ==
    LET a == [s EXCEPT !.sessionIdRef = @ + 1]
        socket == StopSocket(a, socketToClose)
        b == IF socket # 0 THEN SocketCloseCall(a, socket) ELSE a
        c == IF socketToClose = 0 \/ b.socketRef = socketToClose
             THEN [b EXCEPT !.socketRef = 0] ELSE b
        d == stopAudio(c)
    IN  [d EXCEPT !.isMuted = FALSE, !.messages = <<>>]

\* stopSession, lines 183-202 (socketToClose = 0 when called without one)
stopSession(s, socketToClose) ==
    LET a == [s EXCEPT !.sessionIdRef = @ + 1]
        socket == StopSocket(a, socketToClose)
        b == IF socket # 0 THEN SocketCloseCall(a, socket) ELSE a
        c == IF socketToClose = 0 \/ b.socketRef = socketToClose
             THEN [b EXCEPT !.socketRef = 0] ELSE b
        d == stopAudio(c)
    IN  [d EXCEPT !.isMuted = FALSE]

\* addMessage that puts the newest entry first
addMessage_prepend(s, message) ==
    IF s.mounted THEN [s EXCEPT !.messages = <<message>> \o @] ELSE s

\* addMessage, lines 204-206 (a state update of an unmounted component is dropped)
addMessage(s, message) ==
    IF s.mounted THEN [s EXCEPT !.messages = Append(@, message)] ELSE s

\* playAudioChunk that starts every chunk at the cursor, even one the
\* playback clock has passed
playAudioChunk_ignoreClock(s, dur) ==
    IF s.audioContextRef = 0 THEN s
    ELSE LET audioCtx == s.audioContextRef
             startTime == s.nextStartTimeRef
             source == [ctx |-> audioCtx, start |-> startTime, dur |-> dur,
                        state |-> "scheduled"]
         IN  [s EXCEPT !.sources = Append(@, source),
                       !.nextStartTimeRef = startTime + dur,
                       !.scheduledAudioRef = Append(@, Len(s.sources) + 1)]

\* playAudioChunk that moves the cursor to the clock plus the duration,
\* whatever the start time was
playAudioChunk_cursorFromClock(s, dur) ==
    IF s.audioContextRef = 0 THEN s
    ELSE LET audioCtx == s.audioContextRef
             startTime == Max(currentTime(s, audioCtx), s.nextStartTimeRef)
             source == [ctx |-> audioCtx, start |-> startTime, dur |-> dur,
                        state |-> "scheduled"]
         IN  [s EXCEPT !.sources = Append(@, source),
                       !.nextStartTimeRef = currentTime(s, audioCtx) + dur,
                       !.scheduledAudioRef = Append(@, Len(s.sources) + 1)]

\* playAudioChunk, lines 247-276; dur is buffer.duration
playAudioChunk(s, dur) ==
    IF s.audioContextRef = 0 THEN s
    ELSE LET audioCtx == s.audioContextRef
             startTime == Max(currentTime(s, audioCtx), s.nextStartTimeRef)
             source == [ctx |-> audioCtx, start |-> startTime, dur |-> dur,
                        state |-> "scheduled"]
         IN  [s EXCEPT !.sources = Append(@, source),
                       !.nextStartTimeRef = startTime + dur,
                       !.scheduledAudioRef = Append(@, Len(s.sources) + 1)]

\* toggleMute, lines 236-245
toggleMute(s) ==
    IF s.streamRef # 0
    THEN LET newMutedState == ~s.isMuted
         IN  [s EXCEPT !.streams[s.streamRef].enabled = ~newMutedState,
                       !.isMuted = newMutedState]
    ELSE s

\* ------------------------------------------------- inbound payloads
\* An optional JSON field is <<>> when absent and <<v>> when present.
Transcripts == {<<>>, << <<>> >>, << <<" ">> >>, << <<" ", "h">> >>}

\* shape is what JSON.parse returned ("" when it threw), and literal the
\* JSON text of a transcript field that is not a string.
Payload(json, type, transcript, delta) ==
    [json |-> json, shape |-> IF json THEN "object" ELSE "", type |-> type,
     transcript |-> transcript, literal |-> <<>>, delta |-> delta]

\* A payload that is valid JSON but no object: null, a number, a string or
\* an array
Parsed(shape) ==
    [json |-> TRUE, shape |-> shape, type |-> "", transcript |-> <<>>,
     literal |-> <<>>, delta |-> <<>>]

\* A transcript event whose transcript field is the JSON value lit, not a
\* string
OddTranscript(type, lit) ==
    [json |-> TRUE, shape |-> "object", type |-> type, transcript |-> <<>>,
     literal |-> <<lit>>, delta |-> <<>>]

\* JSON values that are not strings, and the ones among them that
\* data.transcript || '' lets through (lines 79 and 90)
Literals == {"null", "0", "false", "5", "true", "[]", "{}"}

Truthy(lit) == lit \notin {"null", "0", "false"}

\* Payloads that are valid JSON without a usable shape
Shapeless ==
    {Parsed(shape) : shape \in {"null", "number", "string", "array"}}
    \cup {OddTranscript(ty, lit) :
            ty \in {"conversation.item.input_audio_transcription.completed",
                    "response.audio_transcript.done"},
            lit \in Literals}

Payloads ==
    {Payload(FALSE, "", <<>>, <<>>)}
    \cup {Payload(TRUE, "response.audio.delta", <<>>, <<d>>) : d \in 1..MaxDur}
    \cup {Payload(TRUE, "response.audio.delta", <<>>, <<>>)}
    \cup {Payload(TRUE, ty, tr, <<>>) :
            ty \in {"conversation.item.input_audio_transcription.completed",
                    "response.audio_transcript.done"},
            tr \in Transcripts}
    \cup {Payload(TRUE, ty, <<>>, <<>>) :
            ty \in {"response.function_call_arguments.done",
                    "input_audio_buffer.speech_started", "error", "session.created"}}

\* String.prototype.trim on a string given as a sequence of characters
RECURSIVE TrimLeft(_)
TrimLeft(str) ==
    IF str # <<>> /\ Head(str) = " " THEN TrimLeft(Tail(str)) ELSE str

RECURSIVE TrimRight(_)
TrimRight(str) ==
    IF str # <<>> /\ str[Len(str)] = " "
    THEN TrimRight(SubSeq(str, 1, Len(str) - 1)) ELSE str

Trim(str) == TrimRight(TrimLeft(str))

\* data.transcript || '', lines 79 and 90
TranscriptOf(data) == IF data.transcript = <<>> THEN <<>> ELSE data.transcript[1]

\* The Message built at lines 81-86 and 92-97; Date.now() is the clock
Entry(s, role, text) ==
    [id |-> <<role, s.clock>>, text |-> text, role |-> role, timestamp |-> s.clock]

\* The transcript branches with a test that lets whitespace through
OnTranscript_noTrim(s, data, role) ==
    LET transcript == TranscriptOf(data)
    IN  IF data.literal # <<>> THEN s
        ELSE IF transcript # <<>>
        THEN addMessage(s, Entry(s, role, transcript))
        ELSE s

\* The transcript branches of socket.onmessage, lines 77-98; a transcript
\* that is not a string is replaced by '' when falsy and otherwise has no
\* trim method, so that line 80 or 91 throws: no entry either way
OnTranscript(s, data, role) ==
    LET transcript == TranscriptOf(data)
    IN  IF data.literal # <<>> THEN s
        ELSE IF Trim(transcript) # <<>>
        THEN addMessage(s, Entry(s, role, transcript))
        ELSE s

\* The outcome of decoding: the decoding error of the codec, or the samples
DecodeError == [error |-> TRUE, duration |-> 0]

Decoded(duration) == [error |-> FALSE, duration |-> duration]

\* base64ToInt16Array of utils/audioUtils (fromTransportText of section 4.1):
\* the samples the text encodes, here their duration in clock units; text
\* that is absent or malformed is rejected with a decoding error
base64ToInt16Array(delta) ==
    IF delta = <<>> THEN DecodeError ELSE Decoded(delta[1])

\* TRUE when socket.onmessage throws on data, so that the promise of the
\* async handler rejects: line 73 reads data.type of null, line 75 hands
\* data.delta to the decoder unguarded, and lines 80 and 91 call trim on
\* whatever truthy value the transcript is, all outside any try block
onmessageRaises(data) ==
    /\ data.json
    /\ \/ data.shape = "null"
       \/ /\ data.shape = "object"
          /\ data.type = "response.audio.delta"
          /\ base64ToInt16Array(data.delta).error
       \/ /\ data.shape = "object"
          /\ data.type \in {"conversation.item.input_audio_transcription.completed",
                            "response.audio_transcript.done"}
          /\ data.literal # <<>>
          /\ Truthy(data.literal[1])

\* socket.onmessage that ends the session on an error event
onmessage_errorStops(s, data) ==
    IF ~data.json THEN s
    ELSE IF data.shape # "object" THEN s
    ELSE IF data.type = "response.audio.delta"
         THEN IF onmessageRaises(data) THEN s
              ELSE playAudioChunk(s, base64ToInt16Array(data.delta).duration)
    ELSE IF data.type = "conversation.item.input_audio_transcription.completed"
         THEN OnTranscript(s, data, "user")
    ELSE IF data.type = "response.audio_transcript.done"
         THEN OnTranscript(s, data, "assistant")
    ELSE IF data.type = "response.function_call_arguments.done" THEN s
    ELSE IF data.type = "input_audio_buffer.speech_started"
         THEN clearAudioQueue(s)
    ELSE IF data.type = "error" THEN stopSession(s, 0)
    ELSE s

\* socket.onmessage, lines 62-107
onmessage(s, data) ==
    IF ~data.json THEN s
    ELSE IF data.shape # "object" THEN s
    ELSE IF data.type = "response.audio.delta"
         THEN IF onmessageRaises(data) THEN s
              ELSE playAudioChunk(s, base64ToInt16Array(data.delta).duration)
    ELSE IF data.type = "conversation.item.input_audio_transcription.completed"
         THEN OnTranscript(s, data, "user")
    ELSE IF data.type = "response.audio_transcript.done"
         THEN OnTranscript(s, data, "assistant")
    ELSE IF data.type = "response.function_call_arguments.done" THEN s
    ELSE IF data.type = "input_audio_buffer.speech_started"
         THEN clearAudioQueue(s)
    ELSE s

\* Socket handlers without the epoch guard
StaleSocket_never(s, j) == FALSE

\* The guard of socket.onopen / onclose / onerror, lines 46, 51, 57:
\* TRUE when the handler returns at once.
StaleSocket(s, j) == s.sessionIdRef # s.sockets[j].sid

\* socket.onopen that waits for the capture handle
onopen_needsCapture(s, j) ==
    IF StaleSocket(s, j) \/ s.streamRef = 0 THEN s
    ELSE [s EXCEPT !.isConnected = TRUE]

\* socket.onopen, lines 45-48
onopen(s, j) ==
    IF StaleSocket(s, j) THEN s ELSE [s EXCEPT !.isConnected = TRUE]

\* socket.onclose, lines 50-54
onclose(s, j) ==
    IF StaleSocket(s, j) THEN s ELSE stopAudio([s EXCEPT !.isConnected = FALSE])

\* socket.onerror, lines 56-60
onerror(s, j) ==
    IF StaleSocket(s, j) THEN s ELSE stopSession(s, j)

\* startAudio without the test after its awaits
StaleAudio_never(s, k) == FALSE

\* The test after each await of startAudio, lines 123 and 138:
\* TRUE when the run finds itself superseded.
StaleAudio(s, k) ==
    s.sessionIdRef # s.tasks[k].sessionId \/ s.audioContextRef # k

\* A catch block that releases the audio side only
startAudioCatch_audioOnly(s) == stopAudio(s)

\* The catch block of startAudio, lines 177-180
startAudioCatch(s) == stopSession(s, 0)

\* startAudio up to its first await, lines 113-122; ctxOk is FALSE when the
\* AudioContext constructor throws
startAudio(s, k, ctxOk) ==
    IF ctxOk
    THEN [s EXCEPT !.contexts[k] = [state |-> "running", origin |-> s.clock],
                   !.audioContextRef = k,
                   !.nextStartTimeRef = 0,
                   !.tasks[k].pc = "module"]
    ELSE startAudioCatch([s EXCEPT !.tasks[k].pc = "done"])

\* startSession without the setIsMuted(false) of line 35
startSession_keepMute(s, ctxOk) ==
    LET currentSessionId == s.sessionIdRef + 1
        k == Len(s.sockets) + 1
        a == [s EXCEPT
                !.sessionIdRef = currentSessionId,
                !.sockets = Append(@, [sid |-> currentSessionId,
                                       readyState |-> "CONNECTING"]),
                !.socketRef = k,
                !.contexts = Append(@, [state |-> "none", origin |-> 0]),
                !.streams = Append(@, [state |-> "none", enabled |-> FALSE,
                                       wired |-> FALSE]),
                !.tasks = Append(@, [sessionId |-> currentSessionId,
                                     pc |-> "start"])]
    IN  startAudio(a, k, ctxOk)

\* startSession, lines 34-111
startSession(s, ctxOk) ==
    LET currentSessionId == s.sessionIdRef + 1
        k == Len(s.sockets) + 1
        a == [s EXCEPT
                !.isMuted = FALSE,
                !.sessionIdRef = currentSessionId,
                !.sockets = Append(@, [sid |-> currentSessionId,
                                       readyState |-> "CONNECTING"]),
                !.socketRef = k,
                !.contexts = Append(@, [state |-> "none", origin |-> 0]),
                !.streams = Append(@, [state |-> "none", enabled |-> FALSE,
                                       wired |-> FALSE]),
                !.tasks = Append(@, [sessionId |-> currentSessionId,
                                     pc |-> "start"])]
    IN  startAudio(a, k, ctxOk)

\* startAudio after audioWorklet.addModule resolved, lines 123-130
afterModule(s, k) ==
    IF StaleAudio(s, k)
    THEN [ContextCloseCall(s, k) EXCEPT !.tasks[k].pc = "closing"]
    ELSE [s EXCEPT !.tasks[k].pc = "gum"]

\* startAudio after getUserMedia resolved, lines 138-174
afterGetUserMedia(s, k) ==
    LET a == [s EXCEPT !.streams[k] = [state |-> "live", enabled |-> TRUE,
                                       wired |-> FALSE]]
    IN  IF StaleAudio(a, k)
        THEN [ContextCloseCall(TracksStop(a, k), k) EXCEPT !.tasks[k].pc = "closing"]
        ELSE [a EXCEPT !.streamRef = k,
                       !.stream = k,
                       !.streams[k].wired = TRUE,
                       !.tasks[k].pc = "done"]

\* startAudio after the await of audioContext.close(), lines 126-127, 142-143
afterClose(s, k) ==
    LET a == [s EXCEPT !.tasks[k].pc = "done"]
    IN  IF a.audioContextRef = k THEN [a EXCEPT !.audioContextRef = 0] ELSE a

\* workletNode.port.onmessage, lines 151-172: one captured frame of pipeline
\* k; event.data is the block the worklet posted last, number s.captured
onframe(s, k) ==
    IF s.socketRef # 0 /\ s.sockets[s.socketRef].readyState = "OPEN"
    THEN [s EXCEPT !.sent = @ \cup {<<k, s.socketRef>>},
                   !.wire = Append(@, [frame |-> s.captured, pipeline |-> k,
                                       socket |-> s.socketRef])]
    ELSE s

\* source.onended that drops the oldest scheduled chunk, whichever ended
onended_shift(s, i) ==
    [s EXCEPT !.scheduledAudioRef = IF @ = <<>> THEN @ ELSE Tail(@)]

\* source.onended, lines 269-271
onended(s, i) ==
    [s EXCEPT !.scheduledAudioRef = SelectSeq(@, LAMBDA x : x # i)]

\* ------------------------------------------------- transport text
\* The alphabet of window.btoa, line 163
Alphabet ==
    <<"A", "B", "C", "D", "E", "F", "G", "H", "I", "J", "K", "L", "M",
      "N", "O", "P", "Q", "R", "S", "T", "U", "V", "W", "X", "Y", "Z",
      "a", "b", "c", "d", "e", "f", "g", "h", "i", "j", "k", "l", "m",
      "n", "o", "p", "q", "r", "s", "t", "u", "v", "w", "x", "y", "z",
      "0", "1", "2", "3", "4", "5", "6", "7", "8", "9", "+", "/">>

\* The character of a six-bit value
Symbol(sextet) == Alphabet[sextet + 1]

\* String.fromCharCode cut down to seven bits
fromCharCode_ascii(code) == code % 128

\* String.fromCharCode, line 161: the code unit of the character it returns
fromCharCode(code) == code % 65536

\* window.btoa, line 163, on a string given as the sequence of its code
\* units (all below 256 here): three characters become four symbols, and a
\* rest of one or two characters is padded with "="
RECURSIVE btoa(_)
btoa(binary) ==
    IF binary = <<>> THEN <<>>
    ELSE IF Len(binary) = 1
    THEN <<Symbol(binary[1] \div 4), Symbol((binary[1] % 4) * 16), "=", "=">>
    ELSE IF Len(binary) = 2
    THEN <<Symbol(binary[1] \div 4),
           Symbol((binary[1] % 4) * 16 + binary[2] \div 16),
           Symbol((binary[2] % 16) * 4), "=">>
    ELSE <<Symbol(binary[1] \div 4),
           Symbol((binary[1] % 4) * 16 + binary[2] \div 16),
           Symbol((binary[2] % 16) * 4 + binary[3] \div 64),
           Symbol(binary[3] % 64)>>
         \o btoa(SubSeq(binary, 4, Len(binary)))

\* The encoding loop of the frame handler, lines 157-163 (toTransportText of
\* section 4.1): one character per byte, then btoa
toTransportText(b) == btoa([i \in DOMAIN b |-> fromCharCode(b[i])])

\* The six-bit value of a symbol of the alphabet
Sextet(symbol) == CHOOSE v \in 0..63 : Symbol(v) = symbol

\* The text without its padding: one or two "=" at the end of a text whose
\* length is a multiple of four
Unpadded(text) ==
    IF Len(text) > 0 /\ Len(text) % 4 = 0 /\ text[Len(text)] = "="
    THEN IF text[Len(text) - 1] = "="
         THEN SubSeq(text, 1, Len(text) - 2)
         ELSE SubSeq(text, 1, Len(text) - 1)
    ELSE text

\* The bytes of a sequence of six-bit values: four values give three bytes,
\* a rest of two gives one byte and a rest of three gives two
RECURSIVE SextetBytes(_)
SextetBytes(v) ==
    IF Len(v) < 2 THEN <<>>
    ELSE IF Len(v) = 2
    THEN <<v[1] * 4 + v[2] \div 16>>
    ELSE IF Len(v) = 3
    THEN <<v[1] * 4 + v[2] \div 16, (v[2] % 16) * 16 + v[3] \div 4>>
    ELSE <<v[1] * 4 + v[2] \div 16, (v[2] % 16) * 16 + v[3] \div 4,
           (v[3] % 4) * 64 + v[4]>>
         \o SextetBytes(SubSeq(v, 5, Len(v)))

\* The outcome of fromTransportText: a decoding error, or the bytes
TextError == [error |-> TRUE, bytes |-> <<>>]

\* fromTransportText of section 4.1 (the decoding half of base64ToInt16Array
\* of utils/audioUtils): the bytes of a base64 text; a text with a symbol
\* outside the alphabet or of a length no encoding has is rejected with a
\* decoding error
fromTransportText(text) ==
    LET data == Unpadded(text)
    IN  IF \/ Len(data) % 4 = 1
           \/ \E i \in DOMAIN data : data[i] \notin Range(Alphabet)
        THEN TextError
        ELSE [error |-> FALSE,
              bytes |-> SextetBytes([i \in DOMAIN data |-> Sextet(data[i])])]

\* The byte values the codec is run on: both ends of the range, both sides
\* of the sign bit, and values whose bits fall on either side of every
\* six-bit boundary
ByteValues == {0, 1, 127, 128, 165, 255}

RECURSIVE SeqsUpTo(_, _)
SeqsUpTo(S, n) ==
    IF n = 0 THEN {<<>>}
    ELSE SeqsUpTo(S, n - 1)
         \cup {Append(q, x) : q \in {r \in SeqsUpTo(S, n - 1) : Len(r) = n - 1}, x \in S}

\* ------------------------------------------------------------- actions
Init ==
    /\ sessionIdRef = 0
    /\ socketRef = 0
    /\ audioContextRef = 0
    /\ streamRef = 0
    /\ nextStartTimeRef = 0
    /\ scheduledAudioRef = <<>>
    /\ isConnected = FALSE
    /\ isMuted = FALSE
    /\ stream = 0
    /\ messages = <<>>
    /\ sockets = <<>>
    /\ contexts = <<>>
    /\ streams = <<>>
    /\ tasks = <<>>
    /\ sources = <<>>
    /\ sent = {}
    /\ captured = 0
    /\ wire = <<>>
    /\ clock = 0
    /\ mounted = TRUE
    /\ codec = "idle"
    /\ bytes = <<>>
    /\ base64 = <<>>
    /\ audioData = TextError
    /\ user = 1
    /\ checking = FALSE
    /\ loggingOut = FALSE
    /\ isLogin = TRUE
    /\ loginError = FALSE
    /\ loading = FALSE

\* The Start button, lines 348-357: shown whenever isConnected is false
StartSessionWith(ctxOk) ==
    /\ mounted
    /\ ~isConnected
    /\ Len(sockets) < MaxSessions
    /\ Commit(startSession(State, ctxOk))

StartSession == \E ctxOk \in BOOLEAN : StartSessionWith(ctxOk)

\* The End button, lines 348-357: shown whenever isConnected is true
EndSession ==
    /\ mounted
    /\ isConnected
    /\ Commit(stopSession(State, 0))

\* The cleanup of the mount effect, lines 28-32
Unmount ==
    /\ mounted
    /\ Commit([stopSession(State, 0) EXCEPT !.mounted = FALSE])

\* The mute button, lines 318-320: disabled unless isConnected
ToggleMute ==
    /\ mounted
    /\ isConnected
    /\ Commit(toggleMute(State))

\* The connection is established: readyState OPEN, then the open event
SocketOpen(j) ==
    /\ sockets[j].readyState = "CONNECTING"
    /\ Commit(onopen([State EXCEPT !.sockets[j].readyState = "OPEN"], j))

\* The connection closes cleanly: readyState CLOSED, then the close event
SocketClose(j) ==
    /\ sockets[j].readyState \in {"OPEN", "CLOSING"}
    /\ Commit(onclose([State EXCEPT !.sockets[j].readyState = "CLOSED"], j))

\* The connection fails: readyState CLOSED, then the error event and the
\* close event in the same task
SocketFail(j) ==
    /\ sockets[j].readyState \in {"CONNECTING", "OPEN", "CLOSING"}
    /\ Commit(onclose(onerror([State EXCEPT !.sockets[j].readyState = "CLOSED"], j), j))

\* A message event with payload data; the browser delivers none unless
\* readyState is OPEN
DeliverWithin(j, data, maxLog) ==
    /\ sockets[j].readyState = "OPEN"
    /\ Len(onmessage(State, data).sources) <= MaxChunks
    /\ Len(onmessage(State, data).messages) <= maxLog
    /\ Commit(onmessage(State, data))

Deliver(j, data) == DeliverWithin(j, data, MaxLog)

SocketMessage(j) == \E data \in Payloads : Deliver(j, data)

\* The transcript events, which write the log, and the other messages,
\* which reach the playback scheduler or the console
TranscriptEvents ==
    {data \in Payloads :
        /\ data.json
        /\ data.type \in {"conversation.item.input_audio_transcription.completed",
                          "response.audio_transcript.done"}}

TranscriptMessage(j) == \E data \in TranscriptEvents : Deliver(j, data)

AudioMessage(j) == \E data \in Payloads \ TranscriptEvents : Deliver(j, data)

ModuleResolve(k) ==
    /\ tasks[k].pc = "module"
    /\ Commit(afterModule(State, k))

ModuleReject(k) ==
    /\ tasks[k].pc = "module"
    /\ Commit(startAudioCatch([State EXCEPT !.tasks[k].pc = "done"]))

GetUserMediaResolve(k) ==
    /\ tasks[k].pc = "gum"
    /\ Commit(afterGetUserMedia(State, k))

GetUserMediaReject(k) ==
    /\ tasks[k].pc = "gum"
    /\ Commit(startAudioCatch([State EXCEPT !.tasks[k].pc = "done"]))

CloseResolve(k) ==
    /\ tasks[k].pc = "closing"
    /\ Commit(afterClose(State, k))

\* The worklet of pipeline k posts a block while its AudioContext runs
\* (audio-processor.js), and the port delivers it to the handler
CaptureFrame(k) ==
    /\ streams[k].wired
    /\ contexts[k].state = "running"
    /\ captured < MaxFrames
    /\ Commit(onframe([State EXCEPT !.captured = @ + 1], k))

\* The ended event of source i: after stop(), or when it has played out
SourceEnded(i) ==
    /\ \/ sources[i].state = "stopped"
       \/ /\ sources[i].state = "scheduled"
          /\ contexts[sources[i].ctx].state = "running"
          /\ currentTime(State, sources[i].ctx) >= sources[i].start + sources[i].dur
    /\ Commit(onended([State EXCEPT !.sources[i].state = "ended"], i))

\* A clock whose every tick is a timeout that ends the session
Tick_timeout ==
    /\ clock < MaxTime
    /\ Commit(stopSession([State EXCEPT !.clock = @ + 1], 0))

Tick ==
    /\ clock < MaxTime
    /\ Commit([State EXCEPT !.clock = @ + 1])

\* The user, the connections and the capture setup: every handler and event
\* of the session lifecycle, with a server that sends nothing
Lifecycle ==
    \/ StartSession
    \/ EndSession
    \/ Unmount
    \/ ToggleMute
    \/ \E j \in DOMAIN sockets : SocketOpen(j)
    \/ \E j \in DOMAIN sockets : SocketClose(j)
    \/ \E j \in DOMAIN sockets : SocketFail(j)
    \/ \E k \in DOMAIN tasks : ModuleResolve(k)
    \/ \E k \in DOMAIN tasks : ModuleReject(k)
    \/ \E k \in DOMAIN tasks : GetUserMediaResolve(k)
    \/ \E k \in DOMAIN tasks : GetUserMediaReject(k)
    \/ \E k \in DOMAIN tasks : CloseResolve(k)
    \/ \E k \in DOMAIN streams : CaptureFrame(k)

\* Every handler and event except the passing of time
Step ==
    \/ Lifecycle
    \/ \E j \in DOMAIN sockets : SocketMessage(j)
    \/ \E i \in DOMAIN sources : SourceEnded(i)

Next ==
    \/ Step
    \/ Tick

\* The component with real time passing
Spec == Init /\ [][Next]_vars

\* The component at one instant: no decision of the session lifecycle reads
\* the clock, so the claims about sessions are checked without Tick
SpecSession == Init /\ [][Step]_vars

\* The component with a silent server: inbound messages write only the log
\* and the playback state, which no lifecycle handler reads, so the claims
\* about the epoch, the connections and the capture setup alone are checked
\* without them
SpecLifecycle == Init /\ [][Lifecycle]_vars

\* The Start button clicked again and again while no connection of the
\* current epoch has opened: every click finds isConnected false and runs
\* startSession
RapidStart ==
    /\ mounted
    /\ ~isConnected
    /\ Len(sockets) < MaxStarts
    /\ Commit(startSession(State, TRUE))

\* An impatient user and a server that sends audio: some behaviours of the
\* component, enough to reach what repeated starts leave behind
Restart ==
    \/ RapidStart
    \/ \E j \in DOMAIN sockets : SocketOpen(j)
    \/ \E j \in DOMAIN sockets : AudioMessage(j)

SpecRestart == Init /\ [][Restart]_vars

\* Sessions one after the other, or one over the other, at one instant, with
\* a server that sends audio, barge-in and diagnostic messages
Audio ==
    \/ Lifecycle
    \/ \E j \in DOMAIN sockets : AudioMessage(j)

\* The transcript branches write only the log and no handler reads it: the
\* claims about what starts, stops and messages do to the Mute Flag and to
\* the playback queue across sessions are checked without transcripts
SpecAudio == Init /\ [][Audio]_vars

\* The first Start click of a freshly mounted component
FirstSession == sockets = <<>> /\ StartSession

\* The session lifecycle of the first session of a mounted component
FirstLifecycle ==
    \/ FirstSession
    \/ EndSession
    \/ Unmount
    \/ ToggleMute
    \/ \E j \in DOMAIN sockets : SocketOpen(j)
    \/ \E j \in DOMAIN sockets : SocketClose(j)
    \/ \E j \in DOMAIN sockets : SocketFail(j)
    \/ \E k \in DOMAIN tasks : ModuleResolve(k)
    \/ \E k \in DOMAIN tasks : ModuleReject(k)
    \/ \E k \in DOMAIN tasks : GetUserMediaResolve(k)
    \/ \E k \in DOMAIN tasks : GetUserMediaReject(k)
    \/ \E k \in DOMAIN tasks : CloseResolve(k)
    \/ \E k \in DOMAIN streams : CaptureFrame(k)

\* One session with real time passing and a server that sends audio,
\* barge-in and diagnostic messages
Playback ==
    \/ FirstLifecycle
    \/ \E j \in DOMAIN sockets : AudioMessage(j)
    \/ \E i \in DOMAIN sources : SourceEnded(i)
    \/ Tick

\* One session with real time passing and a server that sends transcripts
Dialogue ==
    \/ FirstLifecycle
    \/ \E j \in DOMAIN sockets : TranscriptMessage(j)
    \/ Tick

\* The playback scheduler is rebuilt by every startAudio on a new
\* AudioContext, and the transcript branches of onmessage write only the
\* log, which the scheduler never reads: the claims about scheduling
\* against the playback clock are checked on one session without
\* transcripts
SpecPlayback == Init /\ [][Playback]_vars

\* The transcript branches read the message and the clock and write the
\* log: the claims about what a message appends are checked on one session
\* without audio
SpecDialogue == Init /\ [][Dialogue]_vars

\* One session at one instant with a server that sends every kind of
\* message
Conversation ==
    \/ FirstLifecycle
    \/ \E j \in DOMAIN sockets : \E data \in Payloads \cup Shapeless :
          DeliverWithin(j, data, MaxTurns)
    \/ \E i \in DOMAIN sources : SourceEnded(i)

\* No handler decides on the clock what it appends or in which order: the
\* claims about the order of entries, chunks and frames are checked on one
\* session without Tick
SpecConversation == Init /\ [][Conversation]_vars

\* One run of the codec: a buffer of bytes is there to be encoded
InitCodec ==
    /\ sessionIdRef = 0
    /\ socketRef = 0
    /\ audioContextRef = 0
    /\ streamRef = 0
    /\ nextStartTimeRef = 0
    /\ scheduledAudioRef = <<>>
    /\ isConnected = FALSE
    /\ isMuted = FALSE
    /\ stream = 0
    /\ messages = <<>>
    /\ sockets = <<>>
    /\ contexts = <<>>
    /\ streams = <<>>
    /\ tasks = <<>>
    /\ sources = <<>>
    /\ sent = {}
    /\ captured = 0
    /\ wire = <<>>
    /\ clock = 0
    /\ mounted = TRUE
    /\ codec = "bytes"
    /\ bytes \in SeqsUpTo(ByteValues, MaxBytes)
    /\ base64 = <<>>
    /\ audioData = TextError
    /\ user = 1
    /\ checking = FALSE
    /\ loggingOut = FALSE
    /\ isLogin = TRUE
    /\ loginError = FALSE
    /\ loading = FALSE

\* The frame handler encodes the buffer, lines 157-163
Encode ==
    /\ codec = "bytes"
    /\ base64' = toTransportText(bytes)
    /\ codec' = "text"
    /\ UNCHANGED <<bytes, audioData>>
    /\ UNCHANGED sessionVars
    /\ UNCHANGED appVars

\* The receiver decodes the text
Decode ==
    /\ codec = "text"
    /\ audioData' = fromTransportText(base64)
    /\ codec' = "decoded"
    /\ UNCHANGED <<bytes, base64>>
    /\ UNCHANGED sessionVars
    /\ UNCHANGED appVars

Codec == Encode \/ Decode

\* The transport-text codec on its own: it is pure, so it is run on every
\* buffer of up to MaxBytes bytes apart from the session
SpecCodec == InitCodec /\ [][Codec]_vars

\* ------------------------------------------------------------ the App
\* What an auth request comes back with: fetch rejects (threw), or there is
\* a response, with an ok status or not, a JSON content type or not, a body
\* that response.json() parses or not, and in the body the flags and the
\* user record (0 when it has none)
Response(threw, ok, contentJson, parses, authenticated, success, u) ==
    [threw |-> threw, ok |-> ok, contentJson |-> contentJson, parses |-> parses,
     authenticated |-> authenticated, success |-> success, user |-> u]

Responses ==
    {Response(TRUE, FALSE, FALSE, FALSE, FALSE, FALSE, 0)}
    \cup {Response(FALSE, ok, cj, pa, au, su, u) :
            ok \in BOOLEAN, cj \in BOOLEAN, pa \in BOOLEAN,
            au \in BOOLEAN, su \in BOOLEAN, u \in 0..1}

\* checkAuth, App.tsx lines 23-47: the user record it leaves
checkAuth(u, resp) ==
    IF resp.threw THEN u
    ELSE IF ~resp.contentJson THEN u
    ELSE IF ~resp.parses THEN u
    ELSE IF resp.authenticated THEN resp.user
    ELSE u

\* TRUE when handleSubmit shows an error, Login.tsx lines 52-57
SubmitFailed(resp) ==
    resp.threw \/ ~resp.parses \/ ~(resp.ok /\ resp.success)

\* handleSubmit that trusts the success flag of any response
handleSubmit_ignoreStatus(u, resp) ==
    IF resp.threw \/ ~resp.parses THEN u
    ELSE IF resp.success THEN resp.user
    ELSE u

\* handleSubmit of the Login form, Login.tsx lines 24-61, with handleLogin,
\* App.tsx lines 51-53: the user record it leaves
handleSubmit(u, resp) ==
    IF resp.threw \/ ~resp.parses THEN u
    ELSE IF resp.ok /\ resp.success THEN resp.user
    ELSE u

\* A voice agent at its mount: the refs and state of lines 15-26, none of
\* the browser objects of an earlier instance (their handlers hold the refs
\* of that instance, not of this one)
VoiceAgentMount ==
    [sessionIdRef |-> 0, socketRef |-> 0, audioContextRef |-> 0, streamRef |-> 0,
     nextStartTimeRef |-> 0, scheduledAudioRef |-> <<>>, isConnected |-> FALSE,
     isMuted |-> FALSE, stream |-> 0, messages |-> <<>>, sockets |-> <<>>,
     contexts |-> <<>>, streams |-> <<>>, tasks |-> <<>>, sources |-> <<>>,
     sent |-> {}, captured |-> 0, wire |-> <<>>, clock |-> clock,
     mounted |-> TRUE]

\* What App renders, App.tsx lines 67-95
LoginRendered == ~checking /\ user = 0

VoiceAgentRendered == ~checking /\ user # 0

\* The page is loaded: App is mounted, its auth check is in flight and
\* neither the Login form nor the voice agent is rendered
InitApp ==
    /\ sessionIdRef = 0
    /\ socketRef = 0
    /\ audioContextRef = 0
    /\ streamRef = 0
    /\ nextStartTimeRef = 0
    /\ scheduledAudioRef = <<>>
    /\ isConnected = FALSE
    /\ isMuted = FALSE
    /\ stream = 0
    /\ messages = <<>>
    /\ sockets = <<>>
    /\ contexts = <<>>
    /\ streams = <<>>
    /\ tasks = <<>>
    /\ sources = <<>>
    /\ sent = {}
    /\ captured = 0
    /\ wire = <<>>
    /\ clock = 0
    /\ mounted = FALSE
    /\ codec = "idle"
    /\ bytes = <<>>
    /\ base64 = <<>>
    /\ audioData = TextError
    /\ user = 0
    /\ checking = TRUE
    /\ loggingOut = FALSE
    /\ isLogin = TRUE
    /\ loginError = FALSE
    /\ loading = FALSE

\* The auth check of the mount effect comes back, App.tsx lines 22-49
CheckAuth(resp) ==
    /\ checking
    /\ user' = checkAuth(user, resp)
    /\ checking' = FALSE
    /\ IF checkAuth(user, resp) # 0
       THEN CommitSession(VoiceAgentMount)
       ELSE UNCHANGED sessionVars
    /\ UNCHANGED <<loggingOut, isLogin, loginError, loading>>
    /\ UNCHANGED codecVars

\* The link under the form, Login.tsx lines 134-143
SwitchForm ==
    /\ LoginRendered
    /\ isLogin' = ~isLogin
    /\ loginError' = FALSE
    /\ UNCHANGED <<user, checking, loggingOut, loading>>
    /\ UNCHANGED sessionVars
    /\ UNCHANGED codecVars

\* The form is submitted, Login.tsx lines 24-46; the button is disabled
\* while a request is in flight
Submit ==
    /\ LoginRendered
    /\ ~loading
    /\ loginError' = FALSE
    /\ loading' = TRUE
    /\ UNCHANGED <<user, checking, loggingOut, isLogin>>
    /\ UNCHANGED sessionVars
    /\ UNCHANGED codecVars

\* The login or registration request comes back, Login.tsx lines 48-60;
\* with a user record set App replaces the Login form, whose state stays
\* as the form left it, by a voice agent
SubmitResolve(resp) ==
    /\ loading
    /\ user' = handleSubmit(user, resp)
    /\ IF handleSubmit(user, resp) # 0
       THEN CommitSession(VoiceAgentMount)
       ELSE UNCHANGED sessionVars
    /\ loginError' = (SubmitFailed(resp) \/ loginError)
    /\ loading' = FALSE
    /\ UNCHANGED <<checking, loggingOut, isLogin>>
    /\ UNCHANGED codecVars

\* The Logout button, App.tsx lines 55-60 and 86-91
HandleLogout ==
    /\ VoiceAgentRendered
    /\ ~loggingOut
    /\ loggingOut' = TRUE
    /\ UNCHANGED <<user, checking, isLogin, loginError, loading>>
    /\ UNCHANGED sessionVars
    /\ UNCHANGED codecVars

\* A logout that takes the voice agent off the page without running the
\* cleanup of its mount effect
LogoutResolve_noCleanup ==
    /\ loggingOut
    /\ user' = 0
    /\ loggingOut' = FALSE
    /\ CommitSession([State EXCEPT !.mounted = FALSE])
    /\ isLogin' = TRUE
    /\ loginError' = FALSE
    /\ loading' = FALSE
    /\ UNCHANGED checking
    /\ UNCHANGED codecVars

\* The logout request comes back or fails, App.tsx lines 61-64: setUser(null)
\* either way, App renders a new Login form (Login.tsx lines 10-15) and the
\* cleanup of the voice agent's mount effect runs (VoiceAgent.tsx lines
\* 28-32)
LogoutResolve ==
    /\ loggingOut
    /\ user' = 0
    /\ loggingOut' = FALSE
    /\ CommitSession([stopSession(State, 0) EXCEPT !.mounted = FALSE])
    /\ isLogin' = TRUE
    /\ loginError' = FALSE
    /\ loading' = FALSE
    /\ UNCHANGED checking
    /\ UNCHANGED codecVars

\* The handlers and events of the voice agent while App decides whether it
\* is rendered
Rendered ==
    \/ StartSession
    \/ EndSession
    \/ ToggleMute
    \/ \E j \in DOMAIN sockets : SocketOpen(j)
    \/ \E j \in DOMAIN sockets : SocketClose(j)
    \/ \E j \in DOMAIN sockets : SocketFail(j)
    \/ \E k \in DOMAIN tasks : ModuleResolve(k)
    \/ \E k \in DOMAIN tasks : ModuleReject(k)
    \/ \E k \in DOMAIN tasks : GetUserMediaResolve(k)
    \/ \E k \in DOMAIN tasks : GetUserMediaReject(k)
    \/ \E k \in DOMAIN tasks : CloseResolve(k)
    \/ \E k \in DOMAIN streams : CaptureFrame(k)

App ==
    \/ \E resp \in Responses : CheckAuth(resp)
    \/ SwitchForm
    \/ Submit
    \/ \E resp \in Responses : SubmitResolve(resp)
    \/ HandleLogout
    \/ LogoutResolve
    \/ Rendered

\* The page from its load: the auth check, the Login form, and the voice
\* agent mounted and unmounted by App, with a silent server
SpecApp == InitApp /\ [][App]_vars

\* ------------------------------------------------------------ phases
\* The states of section 4.6 as the component shows them: Active is what the
\* End button and the mute button key on; Starting is a connection that is
\* held and still connecting.
Active == isConnected

Starting ==
    /\ ~isConnected
    /\ socketRef # 0
    /\ sockets[socketRef].readyState = "CONNECTING"

Idle == ~Active /\ ~Starting

SocketClosed(j) == sockets[j].readyState \in {"CLOSING", "CLOSED"}

\* A step that runs stopSession(): the End button, the unmount cleanup, or
\* the catch block of a startAudio run
StopCall ==
    \/ EndSession
    \/ Unmount
    \/ \E k \in DOMAIN tasks : ModuleReject(k) \/ GetUserMediaReject(k)

\* What a step leaves behind when it has released playback, capture and the
\* audio engine held before it and left the controller Idle
Released ==
    /\ socketRef' = 0
    /\ scheduledAudioRef' = <<>>
    /\ \A i \in Range(scheduledAudioRef) : sources'[i].state # "scheduled"
    /\ streamRef' = 0
    /\ stream' = 0
    /\ streamRef # 0 => streams'[streamRef].state = "stopped"
    /\ audioContextRef' = 0
    /\ audioContextRef # 0 => contexts'[audioContextRef].state = "closed"
    /\ isMuted' = FALSE
    /\ isConnected' = FALSE

\* What a step leaves behind when it has run the cleanup of stopSession on
\* the resources held before it
Stopped ==
    /\ sessionIdRef' = sessionIdRef + 1
    /\ socketRef # 0 => sockets'[socketRef].readyState \in {"CLOSING", "CLOSED"}
    /\ Released

\* ------------------------------------------------------------ claims

\* C1: the session epoch never decreases, and every startSession and every
\* stopSession (from the End button, the unmount cleanup, a socket error of
\* the current session, or a failed startAudio) makes it strictly larger.
C1_EpochMonotonic ==
    [][/\ sessionIdRef' >= sessionIdRef
       /\ (StartSession \/ StopCall) => sessionIdRef' > sessionIdRef
       /\ \A j \in DOMAIN sockets :
            (SocketFail(j) /\ sockets[j].sid = sessionIdRef)
                => sessionIdRef' > sessionIdRef]_vars

\* C1 witness: a second session was started after the first was stopped, so
\* a start, a stop and a start have each moved the epoch.
C1_Witness ==
    /\ Len(sockets) = 2
    /\ sockets[1].sid = 1
    /\ sockets[2].sid = 3
    /\ sessionIdRef = 3

\* C2: a message delivered on a connection whose epoch is no longer current
\* appends no Conversation Entry, schedules no chunk and flushes no queue.
C2_StaleMessageInert ==
    [][\A j \in DOMAIN sockets : \A data \in Payloads :
         (Deliver(j, data) /\ sockets[j].sid # sessionIdRef)
             => UNCHANGED <<messages, sources, scheduledAudioRef, nextStartTimeRef>>]_vars

\* C3: when the capture setup of a session that was stopped fails after a
\* new session has been started, the failure changes nothing of the new
\* session: not the epoch, its connection, its capture, its playback or the
\* Mute Flag.
C3_StaleFailureInert ==
    [][\A k \in DOMAIN tasks :
         (/\ ModuleReject(k) \/ GetUserMediaReject(k)
          /\ tasks[k].sessionId # sessionIdRef
          /\ SocketClosed(k)
          /\ contexts[k].state = "closed"
          /\ socketRef # 0
          /\ sockets[socketRef].sid = sessionIdRef)
             => UNCHANGED <<sessionIdRef, socketRef, sockets, audioContextRef,
                            contexts, streamRef, streams, stream,
                            scheduledAudioRef, sources, isMuted, isConnected>>]_vars

\* C4: a startAudio run whose session was superseded while it awaited the
\* module load or the permission prompt releases what it holds when the
\* await resolves (the device tracks are stopped, the audio engine closed),
\* and from then on its stream is never stored in streamRef, never exposed as
\* the stream state, never wired to a frame handler and never the origin of
\* a sent frame.
C4_LateCaptureReleased ==
    [][\A k \in DOMAIN tasks :
         /\ (GetUserMediaResolve(k) /\ tasks[k].sessionId # sessionIdRef)
              => /\ streams'[k].state = "stopped"
                 /\ contexts'[k].state = "closed"
                 /\ ~streams'[k].wired
                 /\ streamRef' # k /\ stream' # k
         /\ (ModuleResolve(k) /\ tasks[k].sessionId # sessionIdRef)
              => /\ streams'[k].state = "none"
                 /\ contexts'[k].state = "closed"
                 /\ tasks'[k].pc # "gum"
         /\ (tasks[k].pc \in {"closing", "done"} /\ ~streams[k].wired)
              => /\ ~streams'[k].wired
                 /\ streams'[k].state # "live"
                 /\ streamRef' # k /\ stream' # k
                 /\ \A j \in DOMAIN sockets' : <<k, j>> \notin sent']_vars

\* C4 witness: the prompt of a superseded run has resolved: its device was
\* acquired and stopped at once, its engine is closed, nothing is wired.
C4_Witness ==
    \E k \in DOMAIN tasks :
        /\ tasks[k].sessionId # sessionIdRef
        /\ streams[k].state = "stopped"
        /\ ~streams[k].wired
        /\ contexts[k].state = "closed"
        /\ streamRef = 0

\* C5: onopen, onclose and onerror of a connection whose epoch is not the
\* current one change nothing but that connection's own readyState.
C5_StaleSocketHandlersInert ==
    [][\A j \in DOMAIN sockets :
         (/\ SocketOpen(j) \/ SocketClose(j) \/ SocketFail(j)
          /\ sockets[j].sid # sessionIdRef)
             => /\ UNCHANGED <<sessionIdRef, socketRef, audioContextRef, streamRef,
                               nextStartTimeRef, scheduledAudioRef, isConnected,
                               isMuted, stream, messages, contexts, streams,
                               tasks, sources, sent>>
                /\ \A i \in DOMAIN sockets : i # j => sockets'[i] = sockets[i]]_vars

\* C5 witness: a connection of an older epoch has opened while a newer
\* session is still Starting, and the controller is not connected.
C5_Witness ==
    \E j \in DOMAIN sockets :
        /\ sockets[j].sid # sessionIdRef
        /\ sockets[j].readyState = "OPEN"
        /\ Starting
        /\ ~isConnected

\* C6: every step that runs stopSession (the End button, the unmount
\* cleanup, a failed startAudio, an error of the current connection, a
\* startSession whose AudioContext cannot be created) increments the epoch,
\* closes the connection that was held and releases it, empties the scheduled set
\* (stopping its chunks), stops the tracks of the capture handle and
\* releases handle and audio engine, and leaves the Mute Flag false and the
\* controller not connected.
C6_StopPostcondition ==
    [][/\ StopCall => Stopped
       /\ \A j \in DOMAIN sockets :
            (SocketFail(j) /\ sockets[j].sid = sessionIdRef) => Stopped
       /\ StartSessionWith(FALSE)
            => /\ sessionIdRef' = sessionIdRef + 2
               /\ sockets'[Len(sockets')].readyState = "CLOSING"
               /\ Released]_vars

\* C6 witness: a session that was Active with its capture running has been
\* stopped: its connection is closing, its tracks stopped, its engine closed.
C6_Witness ==
    \E k \in DOMAIN sockets :
        /\ sessionIdRef = sockets[k].sid + 1
        /\ sockets[k].readyState = "CLOSING"
        /\ streams[k].wired
        /\ streams[k].state = "stopped"
        /\ contexts[k].state = "closed"
        /\ socketRef = 0 /\ streamRef = 0 /\ audioContextRef = 0
        /\ ~isConnected /\ ~isMuted

\* C7: a stopSession that runs when the last change of the epoch was itself
\* a stop (no session of the current epoch exists) advances the epoch by one
\* and leaves the connection, the capture handle, the audio engine, the
\* scheduled set, the Mute Flag, the connected flag and the log as they were.
C7_DoubleStopIdempotent ==
    [][(/\ StopCall
        /\ sessionIdRef > 0
        /\ \A j \in DOMAIN sockets : sockets[j].sid # sessionIdRef)
           => /\ sessionIdRef' = sessionIdRef + 1
              /\ UNCHANGED <<socketRef, sockets, audioContextRef, contexts,
                             streamRef, streams, stream, scheduledAudioRef,
                             sources, nextStartTimeRef, isMuted, isConnected,
                             messages>>]_vars

\* C7 witness: two stops have run since the last start.
C7_Witness ==
    /\ Len(sockets) >= 1
    /\ \A j \in DOMAIN sockets : sockets[j].sid + 2 <= sessionIdRef
    /\ \E j \in DOMAIN sockets : sockets[j].sid + 2 = sessionIdRef

\* C8: when the connection of the current epoch closes or fails while the
\* session is Active, the step leaves the state an explicit stopSession
\* would leave.
C8_CloseIsStop ==
    [][\A j \in DOMAIN sockets :
         (/\ SocketClose(j) \/ SocketFail(j)
          /\ sockets[j].sid = sessionIdRef
          /\ Active)
             => Stopped]_vars

\* C9: while a session is Starting or Active no step creates another
\* connection or begins another capture acquisition.
C9_StartOnlyFromIdle ==
    [][(Starting \/ Active)
           => (Len(sockets') = Len(sockets) /\ Len(tasks') = Len(tasks))]_vars

\* C10: at most one connection is un-closed and at most one capture stream
\* is live, and every connection and capture stream of an epoch older than
\* the current one has been closed or stopped.
C10_SingleLiveResources ==
    /\ Cardinality({j \in DOMAIN sockets : ~SocketClosed(j)}) <= 1
    /\ Cardinality({k \in DOMAIN streams : streams[k].state = "live"}) <= 1
    /\ \A j \in DOMAIN sockets : sockets[j].sid # sessionIdRef => SocketClosed(j)
    /\ \A k \in DOMAIN streams :
         tasks[k].sessionId # sessionIdRef => streams[k].state # "live"

\* C11: a captured frame is sent exactly when the epoch under which its
\* pipeline was created is still current and the connection is open; send
\* is never invoked on a connection that is not open, and a pipeline never
\* sends on the connection of another session.
C11_FrameSentIffCurrent ==
    [][\A k \in DOMAIN streams :
         CaptureFrame(k)
            => /\ (tasks[k].sessionId = sessionIdRef /\ sockets[k].readyState = "OPEN")
                     => <<k, k>> \in sent'
               /\ \A j \in DOMAIN sockets :
                    <<k, j>> \in sent' \ sent
                       => /\ sockets[j].readyState = "OPEN"
                          /\ tasks[k].sessionId = sessionIdRef
                          /\ sockets[j].sid = tasks[k].sessionId]_vars

\* The payloads of the claims about single message types
AudioDelta(d) == Payload(TRUE, "response.audio.delta", <<>>, <<d>>)

SpeechStarted == Payload(TRUE, "input_audio_buffer.speech_started", <<>>, <<>>)

\* Some connection is open, so that the server can send a message
CanReceive == \E j \in DOMAIN sockets : sockets[j].readyState = "OPEN"

\* The state the handler of a response.audio.delta message of duration d,
\* arriving now, leaves
Enqueued(d) == onmessage(State, AudioDelta(d))

\* The chunk that message adds
NewChunk(d) == Enqueued(d).sources[Len(Enqueued(d).sources)]

\* The real time at which a chunk starts to play: its start time on the
\* clock of its AudioContext, which began at the context's origin
PlayStart(source) == contexts[source.ctx].origin + source.start

\* C12: whenever a chunk can be enqueued, it goes to the end of the
\* scheduled set, and it starts no earlier than the end (start + duration)
\* of any chunk that was enqueued before it and has neither been flushed nor
\* played out, so chunks start in enqueue order and no two overlap.
C12_NoOverlap ==
    (CanReceive /\ audioContextRef # 0)
       => \A d \in 1..MaxDur :
            /\ Len(Enqueued(d).sources) = Len(sources) + 1
            /\ Enqueued(d).scheduledAudioRef
                  = Append(scheduledAudioRef, Len(sources) + 1)
            /\ \A i \in DOMAIN sources :
                 sources[i].state = "scheduled"
                    => PlayStart(NewChunk(d))
                          >= PlayStart(sources[i]) + sources[i].dur

\* The state a flush of the playback queue (clearAudioQueue), run now, leaves
Flushed == clearAudioQueue(State)

\* C13: a flush, run in any state, stops every chunk that was scheduled,
\* leaves the scheduled set empty and, with an audio engine held, sets the
\* cursor to the value of the playback clock at that moment; and whenever a
\* speech_started message can arrive, its handler does exactly that flush.
C13_FlushClears ==
    /\ Flushed.scheduledAudioRef = <<>>
    /\ \A i \in Range(scheduledAudioRef) : Flushed.sources[i].state = "stopped"
    /\ \A i \in DOMAIN sources : Flushed.sources[i].state # "scheduled"
    /\ audioContextRef # 0
          => Flushed.nextStartTimeRef = clock - contexts[audioContextRef].origin
    /\ CanReceive => onmessage(State, SpeechStarted) = Flushed

\* C13 witness: speech_started arrived while two chunks were queued and the
\* playback clock had advanced: both are stopped, nothing is scheduled, the
\* cursor is the clock, and the audio engine still runs.
C13_Witness ==
    /\ Len(sources) = 2
    /\ \A i \in DOMAIN sources :
         /\ sources[i].state = "stopped"
         /\ sources[i].ctx = audioContextRef
    /\ scheduledAudioRef = <<>>
    /\ audioContextRef # 0
    /\ contexts[audioContextRef].state = "running"
    /\ currentTime(State, audioContextRef) > 0
    /\ nextStartTimeRef = currentTime(State, audioContextRef)

\* C14: in a session whose capture has succeeded and whose connection is
\* open, a response.audio.delta message with a decodable delta adds exactly
\* one chunk to the scheduled set, and the chunk starts no earlier than the
\* value of the playback clock at that moment.
C14_DeltaSchedulesOne ==
    \A j \in DOMAIN sockets : \A d \in 1..MaxDur :
        (/\ sockets[j].readyState = "OPEN"
         /\ sockets[j].sid = sessionIdRef
         /\ streamRef = j
         /\ streams[j].state = "live")
           => /\ Len(Enqueued(d).scheduledAudioRef) = Len(scheduledAudioRef) + 1
              /\ \A i \in DOMAIN scheduledAudioRef :
                   Enqueued(d).scheduledAudioRef[i] = scheduledAudioRef[i]
              /\ Len(Enqueued(d).sources) = Len(sources) + 1
              /\ Enqueued(d).scheduledAudioRef[Len(scheduledAudioRef) + 1]
                    = Len(sources) + 1
              /\ NewChunk(d).state = "scheduled"
              /\ NewChunk(d).dur = d
              /\ NewChunk(d).start >= clock - contexts[audioContextRef].origin

\* C14 witness: the session is Active with its capture running, the
\* playback clock has advanced past the cursor of the fresh engine, and one
\* chunk is scheduled, starting at the clock's value.
C14_Witness ==
    /\ Active
    /\ streamRef # 0
    /\ streams[streamRef].state = "live"
    /\ Len(sources) = 1
    /\ scheduledAudioRef = <<1>>
    /\ sources[1].state = "scheduled"
    /\ sources[1].start > 0
    /\ sources[1].start = currentTime(State, sources[1].ctx)

\* C15: a mute toggle in Active changes nothing but the Mute Flag and the
\* enabled state of the capture tracks (no track is stopped or acquired, the
\* audio engine and the connection are untouched, the pipeline stays wired
\* and running), and a second toggle right after it restores the Mute Flag
\* and every track's enabled state to what they were before the first.
C15_MuteTwiceRestores ==
    [][(ToggleMute /\ Active)
          => /\ UNCHANGED <<sessionIdRef, socketRef, sockets, audioContextRef,
                            contexts, streamRef, stream, tasks, isConnected,
                            scheduledAudioRef, sources, nextStartTimeRef,
                            sent, messages>>
             /\ \A k \in DOMAIN streams :
                  /\ streams'[k].state = streams[k].state
                  /\ streams'[k].wired = streams[k].wired
             /\ streamRef # 0
                  => /\ isMuted' = ~isMuted
                     /\ streams'[streamRef].enabled = ~isMuted'
             /\ toggleMute(State)'.isMuted = isMuted
             /\ toggleMute(State)'.streams = streams]_vars

\* The payloads the dispatcher has to tolerate: text that is not JSON, an
\* object of unknown type, and an object of a recognized type without its
\* transcript or delta
Malformed ==
    {Payload(FALSE, "", <<>>, <<>>),
     Payload(TRUE, "session.created", <<>>, <<>>),
     Payload(TRUE, "conversation.item.input_audio_transcription.completed", <<>>, <<>>),
     Payload(TRUE, "response.audio_transcript.done", <<>>, <<>>),
     Payload(TRUE, "response.audio.delta", <<>>, <<>>)}

\* C16: whenever a connection is open, so that a message can arrive, the
\* handler run on a message that is not JSON, of unknown type, or of a
\* recognized type without its transcript or delta does not raise, appends
\* no Conversation Entry and leaves the session running (the connection,
\* the capture and the audio engine as they were).
C16_DispatcherResilient ==
    \A j \in DOMAIN sockets : \A data \in Malformed :
        sockets[j].readyState = "OPEN"
           => /\ ~onmessageRaises(data)
              /\ onmessage(State, data).messages = messages
              /\ onmessage(State, data).isConnected = isConnected
              /\ onmessage(State, data).sessionIdRef = sessionIdRef
              /\ onmessage(State, data).socketRef = socketRef
              /\ onmessage(State, data).sockets = sockets
              /\ onmessage(State, data).audioContextRef = audioContextRef
              /\ onmessage(State, data).contexts = contexts
              /\ onmessage(State, data).streamRef = streamRef
              /\ onmessage(State, data).streams = streams

\* The role a transcript event gives its Conversation Entry
RoleOf(type) ==
    IF type = "conversation.item.input_audio_transcription.completed"
    THEN "user" ELSE "assistant"

\* A message that is a transcript event whose transcript is present and
\* holds a character other than white space
CarriesText(data) ==
    /\ data.json
    /\ data.type \in {"conversation.item.input_audio_transcription.completed",
                      "response.audio_transcript.done"}
    /\ data.transcript # <<>>
    /\ \E i \in DOMAIN data.transcript[1] : data.transcript[1][i] # " "

\* The log the handler of message data, arriving now, leaves
LogAfter(data) == onmessage(State, data).messages

\* C17: whenever a message can arrive at the mounted component, a
\* transcript event whose transcript is non-empty after trimming appends
\* exactly one Conversation Entry, of role user for
\* conversation.item.input_audio_transcription.completed and assistant for
\* response.audio_transcript.done, holding the untrimmed text; every other
\* message (an empty, blank or absent transcript, any other type) leaves
\* the log as it is.
C17_EntryIffTranscript ==
    (CanReceive /\ mounted)
       => \A data \in Payloads :
            IF CarriesText(data)
            THEN /\ Len(LogAfter(data)) = Len(messages) + 1
                 /\ SubSeq(LogAfter(data), 1, Len(messages)) = messages
                 /\ LogAfter(data)[Len(messages) + 1].role = RoleOf(data.type)
                 /\ LogAfter(data)[Len(messages) + 1].text = data.transcript[1]
            ELSE LogAfter(data) = messages

\* C17 witness: the log holds an entry of role user whose text is the
\* transcript as it was sent, leading blank included.
C17_Witness ==
    \E i \in DOMAIN messages :
        /\ messages[i].role = "user"
        /\ messages[i].text = <<" ", "h">>

\* C18: the conversation log only grows at its end: every step keeps the
\* entries it finds, in their order and unmodified, and a start or a stop
\* of a session (the buttons, the unmount, a failed capture setup, a close
\* or failure of a connection) leaves the log exactly as it was.
C18_LogAppendOnly ==
    [][/\ Len(messages') >= Len(messages)
       /\ SubSeq(messages', 1, Len(messages)) = messages
       /\ (StartSession \/ StopCall \/ ToggleMute) => messages' = messages
       /\ \A j \in DOMAIN sockets :
            (SocketOpen(j) \/ SocketClose(j) \/ SocketFail(j))
               => messages' = messages]_vars

\* C18 witness: an entry logged in the first session is still there after
\* that session was stopped and a second one was started.
C18_Witness ==
    /\ Len(messages) = 1
    /\ Len(sockets) = 2
    /\ sockets[1].readyState = "CLOSED"
    /\ sockets[2].readyState = "CONNECTING"
    /\ sockets[2].sid = sockets[1].sid + 2
    /\ sessionIdRef = sockets[2].sid

\* The messages that are only written to the console: an error event, a
\* completed function call, and a type the handler does not know
Diagnostics ==
    {Payload(TRUE, ty, <<>>, <<>>) :
        ty \in {"error", "response.function_call_arguments.done", "session.created"}}

\* C19: whenever a message can arrive, the handler of an error event, of a
\* response.function_call_arguments.done event and of an unrecognized type
\* leaves the whole state as it is: the session phase, the connection, the
\* capture handle, the scheduled set, the cursor, the Mute Flag, the epoch
\* and the log.
C19_DiagnosticsInert ==
    CanReceive => \A data \in Diagnostics : onmessage(State, data) = State

\* C19 witness: the session is Active and muted with its capture running
\* and a chunk scheduled, and its connection is open to receive.
C19_Witness ==
    /\ Active
    /\ isMuted
    /\ socketRef # 0
    /\ sockets[socketRef].readyState = "OPEN"
    /\ streamRef # 0
    /\ streams[streamRef].state = "live"
    /\ scheduledAudioRef # <<>>

\* C20: when the capture setup of the current session fails while the
\* session is Starting or Active (the module load or the device request
\* rejects), or the audio engine of a session being started cannot be
\* created, the step runs the teardown of stopSession: the session's
\* connection is closed and released, playback is flushed, the audio engine
\* is released, the Mute Flag is false and the controller is Idle; the
\* failed run is over and no connection or capture setup is started in its
\* place.
C20_CaptureFailureStops ==
    [][/\ \A k \in DOMAIN tasks :
            (/\ ModuleReject(k) \/ GetUserMediaReject(k)
             /\ tasks[k].sessionId = sessionIdRef
             /\ Starting \/ Active)
                => /\ Stopped
                   /\ SocketClosed(k)'
                   /\ Idle'
                   /\ contexts'[k].state = "closed"
                   /\ tasks'[k].pc = "done"
                   /\ Len(sockets') = Len(sockets)
                   /\ Len(tasks') = Len(tasks)
       /\ StartSessionWith(FALSE)
            => /\ Released
               /\ Idle'
               /\ Len(sockets') = Len(sockets) + 1
               /\ Len(tasks') = Len(tasks) + 1
               /\ sockets'[Len(sockets')].readyState = "CLOSING"
               /\ tasks'[Len(tasks')].pc = "done"
               /\ contexts'[Len(tasks')].state = "none"]_vars

\* C20 witness: the capture setup of a session is over without a device
\* having been acquired: the session's connection is closing, its audio
\* engine is closed, the epoch has moved on by one, and the controller is
\* Idle with the Mute Flag false.
C20_Witness ==
    \E k \in DOMAIN tasks :
        /\ tasks[k].pc = "done"
        /\ streams[k].state = "none"
        /\ contexts[k].state = "closed"
        /\ sockets[k].readyState = "CLOSING"
        /\ sessionIdRef = tasks[k].sessionId + 1
        /\ Idle
        /\ ~isMuted
        /\ audioContextRef = 0
        /\ mounted

\* The state two messages arriving now, first data1 and then data2, leave
AfterBoth(data1, data2) == onmessage(onmessage(State, data1), data2)

\* The entries of log that come after the first n
Beyond(log, n) == SubSeq(log, n + 1, Len(log))

\* Every entry of the sequence entries carries the role and the text of the
\* transcript event data
EntriesOf(entries, data) ==
    \A i \in DOMAIN entries :
        /\ CarriesText(data)
        /\ entries[i].role = RoleOf(data.type)
        /\ entries[i].text = data.transcript[1]

\* C21: whenever two messages can arrive one after the other, the log
\* keeps what it held, then holds what the first message appended, then
\* what the second appended; two decodable audio deltas leave their chunks
\* at the end of the scheduled set, the first message's chunk before the
\* second's and starting no later; and the frames handed to send are in
\* capture order, none twice.
C21_OrderPreserved ==
    /\ CanReceive
          => \A data1, data2 \in Payloads :
               LET first == onmessage(State, data1)
                   both == AfterBoth(data1, data2)
               IN  /\ SubSeq(both.messages, 1, Len(messages)) = messages
                   /\ SubSeq(both.messages, 1, Len(first.messages)) = first.messages
                   /\ EntriesOf(Beyond(first.messages, Len(messages)), data1)
                   /\ EntriesOf(Beyond(both.messages, Len(first.messages)), data2)
    /\ (CanReceive /\ audioContextRef # 0)
          => \A d1, d2 \in 1..MaxDur :
               LET both == AfterBoth(AudioDelta(d1), AudioDelta(d2))
                   n == Len(sources)
               IN  /\ Len(both.sources) = n + 2
                   /\ both.scheduledAudioRef = scheduledAudioRef \o <<n + 1, n + 2>>
                   /\ both.sources[n + 1].dur = d1
                   /\ both.sources[n + 2].dur = d2
                   /\ both.sources[n + 1].start <= both.sources[n + 2].start
    /\ \A i, j \in DOMAIN wire : i < j => wire[i].frame < wire[j].frame

\* C21 witness: the user's transcript arrived before the assistant's and
\* sits before it in the log, two chunks are scheduled in the order of
\* their messages, and two captured frames were sent in capture order.
C21_Witness ==
    /\ Len(messages) = 2
    /\ messages[1].role = "user"
    /\ messages[2].role = "assistant"
    /\ scheduledAudioRef = <<1, 2>>
    /\ sources[1].start < sources[2].start
    /\ Len(wire) = 2
    /\ wire[1].frame = 1
    /\ wire[2].frame = 2

\* A step that runs stopSession through the error handler of the current
\* connection
CurrentSocketFail ==
    \E j \in DOMAIN sockets : SocketFail(j) /\ sockets[j].sid = sessionIdRef

\* C22: the Mute Flag is false after every step that runs startSession or
\* stopSession; it becomes true only by a toggle in Active, it becomes false
\* only by a toggle in Active or by a start or a stop, and no inbound
\* message (the flush of speech_started included) changes it.
C22_MuteFlagDiscipline ==
    [][/\ (StartSession \/ StopCall \/ CurrentSocketFail) => isMuted' = FALSE
       /\ (~isMuted /\ isMuted') => (ToggleMute /\ Active)
       /\ (isMuted /\ ~isMuted')
             => \/ ToggleMute /\ Active
                \/ StartSession \/ StopCall \/ CurrentSocketFail
       /\ CanReceive
             => \A data \in Payloads : onmessage(State, data).isMuted = isMuted
       /\ \A j \in DOMAIN sockets :
            AudioMessage(j) => isMuted' = isMuted]_vars

\* C22 witness: the first session was muted when its connection closed,
\* which left the flag set; the second session has started with the flag
\* false.
C22_Witness ==
    /\ Len(sockets) = 2
    /\ sockets[1].readyState = "CLOSED"
    /\ sessionIdRef = sockets[1].sid + 1
    /\ streams[1].state = "stopped"
    /\ ~streams[1].enabled
    /\ sessionIdRef = sockets[2].sid
    /\ ~isMuted

\* The permission prompt of startAudio run k is open and run k belongs to
\* the current session
PromptOpen(k) == tasks[k].pc = "gum" /\ tasks[k].sessionId = sessionIdRef

\* A step in which the connection of the current session opens
CurrentSocketOpen ==
    \E j \in DOMAIN sockets : SocketOpen(j) /\ sockets[j].sid = sessionIdRef

\* C23 as stated: while the permission prompt of the current session is
\* unresolved, the session leaves Starting only when the prompt resolves or
\* when stopSession runs (the unmount, a failed capture setup, an error of
\* the connection).
C23_StartingUntilPromptResolves ==
    [][\A k \in DOMAIN tasks :
         (PromptOpen(k) /\ Starting /\ ~Starting')
            => \/ GetUserMediaResolve(k) \/ GetUserMediaReject(k)
               \/ StopCall \/ CurrentSocketFail]_vars

\* C23 amended: while the permission prompt of the current session is
\* unresolved, the passing of time changes nothing but the clock; the
\* prompt stays open until it resolves or rejects or the epoch moves on (a
\* start or a stop); and the session leaves Starting only by a stop, by a
\* rejection of the prompt, by another start whose audio engine cannot be
\* created, or by the opening of its connection, which makes it Active
\* with the prompt still open.
C23_HungPromptNoTimeout ==
    [][\A k \in DOMAIN tasks :
         PromptOpen(k)
            => /\ Tick => /\ PromptOpen(k)'
                          /\ UNCHANGED <<sessionIdRef, socketRef, sockets,
                                          audioContextRef, contexts, streamRef,
                                          streams, stream, tasks, isConnected,
                                          isMuted>>
               /\ ~PromptOpen(k)'
                     => \/ GetUserMediaResolve(k) \/ GetUserMediaReject(k)
                        \/ StartSession \/ StopCall \/ CurrentSocketFail
               /\ (Starting /\ ~Starting')
                     => \/ CurrentSocketOpen /\ Active' /\ PromptOpen(k)'
                        \/ GetUserMediaReject(k)
                        \/ StartSession \/ StopCall \/ CurrentSocketFail]_vars

\* C23 witness: time has passed and the connection has opened while the
\* permission prompt of the current session is still open: the session is
\* Active without a capture handle.
C23_Witness ==
    \E k \in DOMAIN tasks :
        /\ PromptOpen(k)
        /\ clock > 0
        /\ Active
        /\ streamRef = 0
        /\ audioContextRef = k

\* C24: the text the frame handler produces for a buffer of bytes decodes
\* without error to exactly those bytes.
C24_TransportTextRoundTrip ==
    codec = "decoded" => (~audioData.error /\ audioData.bytes = bytes)

\* C24 witness: a buffer of two bytes, one with its high bit set, was
\* encoded to a padded text of four symbols and decoded back.
C24_Witness ==
    /\ codec = "decoded"
    /\ bytes = <<1, 255>>
    /\ base64 = <<"A", "f", "8", "=">>
    /\ audioData.bytes = <<1, 255>>

\* The state the open event of connection j, arriving in state s, leaves
Opened(s, j) == onopen([s EXCEPT !.sockets[j].readyState = "OPEN"], j)

\* The state the next block posted by the worklet of pipeline k, arriving
\* in state s, leaves
Framed(s, k) == onframe([s EXCEPT !.captured = @ + 1], k)

\* The connection of the current session is still opening while run k of
\* startAudio, of the same session, waits at its permission prompt
BothPending(k) ==
    /\ PromptOpen(k)
    /\ audioContextRef = k
    /\ socketRef = k
    /\ sockets[k].readyState = "CONNECTING"
    /\ sockets[k].sid = sessionIdRef

\* C25: the open event of the current connection makes the controller
\* Active whether or not capture has succeeded; capture success of the
\* current run stores and wires the stream whether or not the connection is
\* open, and touches neither the connection nor the connected flag; with
\* both pending, open-then-capture and capture-then-open leave the same
\* state, Active with the capture handle held, in which the next frame is
\* sent; and a frame captured while the connection held is not open is
\* dropped: it is not sent then, and no later step sends it.
C25_OpenAndCaptureIndependent ==
    [][/\ CurrentSocketOpen => Active'
       /\ \A k \in DOMAIN tasks :
            (GetUserMediaResolve(k) /\ ~StaleAudio(State, k))
               => /\ streamRef' = k
                  /\ stream' = k
                  /\ streams'[k] = [state |-> "live", enabled |-> TRUE,
                                    wired |-> TRUE]
                  /\ UNCHANGED <<sockets, socketRef, isConnected>>
       /\ \A k \in DOMAIN tasks :
            BothPending(k)
               => LET openFirst == afterGetUserMedia(Opened(State, k), k)
                      captureFirst == Opened(afterGetUserMedia(State, k), k)
                  IN  /\ openFirst = captureFirst
                      /\ openFirst.isConnected
                      /\ openFirst.streamRef = k
                      /\ openFirst.streams[k].wired
                      /\ Framed(openFirst, k).wire
                            = Append(wire, [frame |-> captured + 1,
                                            pipeline |-> k, socket |-> k])
       /\ \A k \in DOMAIN streams :
            CaptureFrame(k)
               => IF socketRef # 0 /\ sockets[socketRef].readyState = "OPEN"
                  THEN wire' = Append(wire, [frame |-> captured', pipeline |-> k,
                                             socket |-> socketRef])
                  ELSE wire' = wire /\ sent' = sent
       /\ wire' # wire => \E k \in DOMAIN streams : CaptureFrame(k)]_vars

\* C25 witness: capture succeeded while the connection was still opening;
\* the first frame was captured then and dropped, the connection opened,
\* and the second frame was sent: the session is Active with the capture
\* handle held and only frame 2 on the wire.
C25_Witness ==
    /\ Active
    /\ streamRef = 1
    /\ streams[1].state = "live"
    /\ socketRef = 1
    /\ sockets[1].readyState = "OPEN"
    /\ captured = 2
    /\ wire = <<[frame |-> 2, pipeline |-> 1, socket |-> 1]>>

\* The value of the playback clock: currentTime of the audio engine held
Now == clock - contexts[audioContextRef].origin

\* C26: whenever a chunk can be enqueued, it starts at the later of the
\* playback clock and the cursor (at the clock exactly when the cursor
\* lags behind it, at the cursor when the cursor is ahead), and the enqueue
\* leaves the cursor at the chunk's start plus its duration.
C26_StartAtMaxOfClockAndCursor ==
    (CanReceive /\ audioContextRef # 0)
       => \A d \in 1..MaxDur :
            /\ NewChunk(d).ctx = audioContextRef
            /\ NewChunk(d).start >= Now
            /\ NewChunk(d).start >= nextStartTimeRef
            /\ NewChunk(d).start \in {Now, nextStartTimeRef}
            /\ nextStartTimeRef < Now => NewChunk(d).start = Now
            /\ nextStartTimeRef > Now => NewChunk(d).start = nextStartTimeRef
            /\ Enqueued(d).nextStartTimeRef = NewChunk(d).start + d

\* C26 witness: the first chunk arrived after the clock had passed the
\* cursor of the fresh engine and started at the clock; the second arrived
\* with the cursor ahead of the clock and started at the cursor, the end of
\* the first.
C26_Witness ==
    /\ Len(sources) = 2
    /\ audioContextRef # 0
    /\ sources[1].ctx = audioContextRef
    /\ sources[2].ctx = audioContextRef
    /\ sources[1].start = Now
    /\ sources[1].start > 0
    /\ sources[2].start = sources[1].start + sources[1].dur
    /\ sources[2].start > Now
    /\ nextStartTimeRef = sources[2].start + sources[2].dur

\* A step that runs startSession: it begins a run of startAudio
StartStep == Len(tasks') = Len(tasks) + 1

\* A step that flushes the playback queue: the barge-in message, or a stop
\* or a close of a connection, which run stopAudio
FlushStep ==
    \/ StopCall
    \/ \E j \in DOMAIN sockets :
          SocketClose(j) \/ SocketFail(j) \/ Deliver(j, SpeechStarted)

\* C27: a session start leaves the cursor at the current time of the
\* engine it has created; an enqueue and a flush, with an engine held,
\* leave it no earlier than the playback clock, and a flush without an
\* engine leaves it alone; every step that changes the cursor leaves it no
\* earlier than the current time of an engine held before or after the
\* step; and the cursor decreases only in a step that flushes or that
\* starts a session.
C27_CursorNotBeforeClock ==
    [][/\ (StartStep /\ audioContextRef' # 0)
             => nextStartTimeRef' = clock' - contexts'[audioContextRef'].origin
       /\ (CanReceive /\ audioContextRef # 0)
             => \A d \in 1..MaxDur :
                  /\ Enqueued(d).nextStartTimeRef >= Now
                  /\ Enqueued(d).nextStartTimeRef >= nextStartTimeRef
       /\ audioContextRef # 0 => Flushed.nextStartTimeRef >= Now
       /\ audioContextRef = 0 => Flushed.nextStartTimeRef = nextStartTimeRef
       /\ nextStartTimeRef' # nextStartTimeRef
             => \E e \in {audioContextRef, audioContextRef'} \ {0} :
                  nextStartTimeRef' >= clock' - contexts'[e].origin
       /\ nextStartTimeRef' < nextStartTimeRef
             => (StartStep \/ FlushStep)]_vars

\* C27 witness: a chunk moved the cursor ahead of the clock, a flush took
\* it back to the clock, and the chunk enqueued after the flush starts
\* before the end of the stopped one; the cursor is again ahead of the
\* clock.
C27_Witness ==
    /\ Len(sources) = 2
    /\ audioContextRef # 0
    /\ sources[1].state = "stopped"
    /\ sources[2].state = "scheduled"
    /\ sources[2].ctx = audioContextRef
    /\ sources[2].start < sources[1].start + sources[1].dur
    /\ sources[2].start >= Now
    /\ nextStartTimeRef = sources[2].start + sources[2].dur
    /\ clock > 0

\* C28: the ended event of a chunk takes that chunk, and no other, out of
\* the scheduled set, keeps the others in their order, and changes no
\* other chunk and not the cursor; the ended event of a chunk that was
\* force-stopped leaves the scheduled set, with every chunk enqueued since,
\* as it is.
C28_EndedRemovesOnlyItself ==
    [][\A i \in DOMAIN sources :
         SourceEnded(i)
            => /\ Range(scheduledAudioRef') = Range(scheduledAudioRef) \ {i}
               /\ Len(scheduledAudioRef') = Cardinality(Range(scheduledAudioRef'))
               /\ \A a, b \in DOMAIN scheduledAudioRef' :
                    a < b
                       => \E c, d \in DOMAIN scheduledAudioRef :
                            /\ c < d
                            /\ scheduledAudioRef[c] = scheduledAudioRef'[a]
                            /\ scheduledAudioRef[d] = scheduledAudioRef'[b]
               /\ \A m \in DOMAIN sources : m # i => sources'[m] = sources[m]
               /\ nextStartTimeRef' = nextStartTimeRef
               /\ sources[i].state = "stopped"
                     => scheduledAudioRef' = scheduledAudioRef]_vars

\* C28 witness: the first chunk has had its ended event and is out of the
\* scheduled set; the second, enqueued after it, is still scheduled.
C28_Witness ==
    /\ Len(sources) = 2
    /\ sources[1].state = "ended"
    /\ sources[2].state = "scheduled"
    /\ scheduledAudioRef = <<2>>
    /\ clock >= sources[1].start + sources[1].dur

\* C29: whenever the controller holds no audio engine the scheduled set
\* is empty, every chunk of the scheduled set was created on the audio
\* engine currently held, and every chunk still scheduled to play is in
\* the scheduled set: none outlives the session it was enqueued in.
C29_ScheduledOnHeldEngine ==
    /\ audioContextRef = 0 => scheduledAudioRef = <<>>
    /\ \A i \in Range(scheduledAudioRef) : sources[i].ctx = audioContextRef
    /\ \A i \in DOMAIN sources :
         sources[i].state = "scheduled" => i \in Range(scheduledAudioRef)

\* The state a click on the mute button, made now, leaves
Toggled == toggleMute(State)

\* C30: whenever the session is Active, so that the mute button can be
\* clicked, toggleMute flips the Mute Flag and leaves every live capture
\* track enabled exactly when the new flag is false, whether or not
\* capture had been acquired when the connection opened.
C30_ToggleAlwaysFlips ==
    (Active /\ mounted)
       => /\ Toggled.isMuted = ~isMuted
          /\ \A k \in DOMAIN streams :
               streams[k].state = "live"
                  => Toggled.streams[k].enabled = ~Toggled.isMuted

\* C31: in every state the Mute Flag is true only if the controller holds
\* a capture handle, that handle is live and belongs to the session that is
\* Active; so whenever the controller is Idle (after stop, unsolicited
\* close, connection error or capture failure) the Mute Flag is false.
C31_MutedOnlyWhileCapturing ==
    /\ isMuted
          => /\ streamRef # 0
             /\ streams[streamRef].state = "live"
             /\ Active
    /\ Idle => ~isMuted

\* The open event of the connection the controller holds, created under the
\* current epoch
CurrentOpenStep ==
    \E j \in DOMAIN sockets :
        /\ j = socketRef
        /\ sockets[j].sid = sessionIdRef
        /\ sockets[j].readyState = "CONNECTING"
        /\ sockets'[j].readyState = "OPEN"

\* What every teardown path leaves: the controller does not report Active
TornDown(s) == ~s.isConnected

\* C32: whenever isConnected is true the controller holds a connection,
\* that connection was created under the current epoch and is open (it has
\* reported open and neither closed nor failed since); isConnected turns
\* true only in the open event of the held connection of the current
\* epoch; and every teardown path (stopSession from the End button, the
\* unmount or a capture failure, and the close and error events of the
\* current connection) leaves it false.
C32_ConnectedMeansCurrentOpen ==
    /\ [](isConnected
            => /\ socketRef # 0
               /\ sockets[socketRef].sid = sessionIdRef
               /\ sockets[socketRef].readyState = "OPEN")
    /\ [](/\ TornDown(stopSession(State, 0))
          /\ TornDown(startAudioCatch(State))
          /\ \A j \in DOMAIN sockets :
               ~StaleSocket(State, j)
                  => /\ TornDown(onclose(State, j))
                     /\ TornDown(onerror(State, j)))
    /\ [][(~isConnected /\ isConnected') => CurrentOpenStep]_vars
    /\ [][(StopCall \/ \E j \in DOMAIN sockets :
                         /\ ~StaleSocket(State, j)
                         /\ SocketClose(j) \/ SocketFail(j))
             => ~isConnected']_vars

\* C32 witness: a first session has been torn down, its connection closed
\* and its audio engine released, and the controller reports Active on the
\* open connection of the second session.
C32_Witness ==
    /\ isConnected
    /\ Len(sockets) = 2
    /\ socketRef = 2
    /\ sockets[1].readyState = "CLOSED"
    /\ sockets[2].readyState = "OPEN"
    /\ sockets[2].sid = sessionIdRef
    /\ contexts[1].state = "closed"

\* C34: the Conversation Entries of the log have pairwise distinct ids,
\* whatever transcript messages arrived and however close in time, two of
\* the same role within one clock millisecond included.
C34_EntryIdsDistinct ==
    \A a, b \in DOMAIN messages :
        a # b => messages[a].id # messages[b].id

\* C35: whenever a connection is open, so that a message can arrive, the
\* handler run on a payload that is valid JSON without a usable shape
\* (null, a number, a string, an array, or a transcript event whose
\* transcript is not a string) does not raise, appends no Conversation
\* Entry, schedules no audio and leaves the session as it is, as it does
\* for a payload that is not JSON.
C35_ShapelessDropped ==
    \A j \in DOMAIN sockets : \A data \in Shapeless :
        sockets[j].readyState = "OPEN"
           => /\ ~onmessageRaises(data)
              /\ onmessage(State, data) = onmessage(State, Payload(FALSE, "", <<>>, <<>>))
              /\ onmessage(State, data).messages = messages
              /\ onmessage(State, data).sources = sources
              /\ onmessage(State, data).scheduledAudioRef = scheduledAudioRef

\* The step in which the voice agent is taken off the page
UnmountStep == mounted /\ ~mounted'

\* C33: a step that unmounts the voice agent while a session is Starting
\* or Active, the logout of the surrounding App included, tears the session
\* down as stopSession does: the epoch moves on, the held connection is
\* closing or closed and no longer held, the tracks of the held capture
\* handle are stopped, the held audio engine is closed, nothing is left
\* scheduled, and the controller reports neither Active nor muted; and once
\* the voice agent is unmounted a capture acquisition that resolves stops
\* its tracks and closes its engine without storing or wiring the handle,
\* and no setup run reaches the device any more.
C33_UnmountStops ==
    /\ [][(UnmountStep /\ (Starting \/ Active))
            => /\ State' = [stopSession(State, 0) EXCEPT !.mounted = FALSE]
               /\ sessionIdRef' = sessionIdRef + 1
               /\ sockets'[socketRef].readyState \in {"CLOSING", "CLOSED"}
               /\ socketRef' = 0
               /\ streamRef # 0 => streams'[streamRef].state = "stopped"
               /\ streamRef' = 0
               /\ stream' = 0
               /\ audioContextRef # 0
                     => contexts'[audioContextRef].state = "closed"
               /\ audioContextRef' = 0
               /\ scheduledAudioRef' = <<>>
               /\ ~isConnected'
               /\ ~isMuted']_vars
    /\ [][~mounted /\ ~mounted'
            => \A k \in DOMAIN tasks :
                 /\ GetUserMediaResolve(k)
                       => /\ streams'[k].state = "stopped"
                          /\ ~streams'[k].wired
                          /\ contexts'[k].state = "closed"
                          /\ streamRef' = 0
                          /\ stream' = 0
                 /\ tasks[k].pc = "module" => tasks'[k].pc # "gum"]_vars

\* C33 witness: the user logged out while the one session of the voice
\* agent had its connection held and not closed; the logout was the only
\* stop, it left the connection closing, and the capture acquisition that
\* was in flight has resolved since and released its device and its engine.
C33_Witness ==
    /\ ~mounted
    /\ user = 0
    /\ Len(sockets) = 1
    /\ sessionIdRef = 2
    /\ sockets[1].readyState = "CLOSING"
    /\ socketRef = 0
    /\ streams[1].state = "stopped"
    /\ ~streams[1].wired
    /\ contexts[1].state = "closed"
    /\ tasks[1].pc \in {"closing", "done"}

\* C36: the voice agent is mounted only while a user record is set and the
\* auth check is over, so that a session is started only then; the user
\* record passes from unset to set only in the step of an auth check that
\* came back authenticated or of a login or registration request that came
\* back with an ok status and a success flag; and in no state does an auth
\* request that threw, or came back without those, change the user record.
C36_UserSetOnlyByAuth ==
    /\ [](mounted => (user # 0 /\ ~checking))
    /\ [][StartStep => (user # 0 /\ user' # 0 /\ ~checking)]_vars
    /\ [][(user = 0 /\ user' # 0)
            => \E resp \in Responses :
                 /\ ~resp.threw
                 /\ \/ CheckAuth(resp) /\ resp.authenticated
                    \/ SubmitResolve(resp) /\ resp.ok /\ resp.success]_vars
    /\ [](\A resp \in Responses :
            /\ checkAuth(user, resp) # user
                  => (~resp.threw /\ resp.authenticated)
            /\ handleSubmit(user, resp) # user
                  => (~resp.threw /\ resp.ok /\ resp.success))

\* C36 witness: a registration went through, the Login form (still on its
\* Register side) is off the page, and the voice agent rendered in its
\* place has started a session.
C36_Witness ==
    /\ VoiceAgentRendered
    /\ mounted
    /\ ~isLogin
    /\ socketRef # 0
    /\ sockets[socketRef].readyState = "OPEN"
    /\ isConnected

====
